---- MODULE Spec2Model ----
(***************************************************************************)
(* A model of the Stromnetz Graz API client (src/src/sngraz/sngraz.py):    *)
(* the session (token, lazy re-authentication, raw request with retry),    *)
(* the account refresh, the asyncio.gather fan-out and the meter's         *)
(* reading fetch.                                                          *)
(*                                                                         *)
(* One coroutine step is one action: a coroutine runs without interruption *)
(* from one await of the transport to the next, so an action covers the    *)
(* code between two suspensions.                                           *)
(***************************************************************************)
EXTENDS Integers, Sequences, FiniteSets, TLC

VARIABLES
    now,            \* the wall clock jwt.decode compares "exp" with
    jwt,            \* StromNetzGraz._jwt
    installations,  \* StromNetzGraz._installations
    pc,             \* per task: idle | wait (a POST in flight) | done
    op,             \* per task: the public coroutine that is running
    path,           \* per task: the path argument of query()
    phase,          \* per task: which _query call is active: login | main
    retry,          \* per task: the retry argument of the active _query call
    sent,           \* per task: the POST in flight (path, Authorization, build time)
    inbox,          \* per task: the last transport outcome delivered to _query
    result,         \* per task: how the public coroutine ended
    posts,          \* per task: POSTs made by the active _query call (history)
    failures,       \* per task: ClientErrors seen by the active _query call (history)
    okLog,          \* the evaluations of the ok property made by the last step that made any
    owner,          \* fan-out: the installation whose _meters holds each meter
    acct,           \* fan-out: StromNetzGraz.fetch_consumption_data
    instTask,       \* fan-out: the task of each SNGrazInstallation.fetch_consumption_data
    meterTask,      \* fan-out: the task of each SNGrazMeter.fetch_consumption_data
    gatherAcct,     \* fan-out: the future asyncio.gather returned to the account
    gatherInst,     \* fan-out: the future asyncio.gather returned to each installation
    meterData,      \* fan-out: SNGrazMeter._data of each meter: unset | batch
    meter,          \* the fields of one SNGrazMeter
    frame,          \* per caller of the meter: the coroutine's position and locals
    hist            \* history: the newest readTime seen (any record, Valid MR record)
                    \* and the number of metadata queries that returned a date

sessionVars == << now, jwt, installations, pc, op, path, phase, retry, sent, inbox,
                  result, posts, failures, okLog >>
fanVars == << owner, acct, instTask, meterTask, gatherAcct, gatherInst, meterData >>
meterVars == << meter, frame, hist >>
vars == << sessionVars, fanVars, meterVars >>

(***************************************************************************)
(* Bounds                                                                  *)
(***************************************************************************)
MaxTime == 2
MaxInsts == 2
MaxFanInsts == 2
MaxFanMeters == 3

(***************************************************************************)
(* Program constants                                                       *)
(***************************************************************************)
DefaultRetry == 2

Tasks == {"t1", "t2"}
MainTask == "t1"
LoginPath == "login"
Paths == {"getInstallations", "getMeterReadingMetaData", "getMeterReading"}

(***************************************************************************)
(* Tokens.  A token string is either a JWT carrying an "exp" claim or a    *)
(* string jwt.decode cannot decode; NoToken is Python's None.              *)
(***************************************************************************)
NoToken == [kind |-> "none", exp |-> 0]
Garbage == [kind |-> "garbage", exp |-> 0]
Jwt(e) == [kind |-> "jwt", exp |-> e]
Tokens == {Garbage} \cup {Jwt(e) : e \in 1..MaxTime}

\* jwt.decode(token, options={"verify_signature": False, "verify_exp": True})
\* raises DecodeError on a string that is no JWT and ExpiredSignatureError
\* once the clock has reached the "exp" claim.
JwtDecodeRaises(tok, t) == tok.kind # "jwt" \/ tok.exp <= t

\* The value the ok property returns for stored token j at time t.
okMutNoExpiry(j, t) == j.kind # "none" /\ j.kind = "jwt"
ok(j, t) == j.kind # "none" /\ ~JwtDecodeRaises(j, t)

\* self._jwt after the ok property has been evaluated.
JwtAfterOkMutKeep(j, t) == j
JwtAfterOk(j, t) == IF j.kind # "none" /\ JwtDecodeRaises(j, t) THEN NoToken ELSE j

OkEntry(j, t) == [tok |-> j, at |-> t, ret |-> ok(j, t), after |-> JwtAfterOk(j, t)]

(***************************************************************************)
(* Response bodies.  Every body is a record with the same fields so that   *)
(* bodies compare; a field a JSON object does not carry is "absent".       *)
(***************************************************************************)
AbsentField == [kind |-> "absent", exp |-> 0]
EmptyField == [kind |-> "empty", exp |-> 0]
TokenFields == {AbsentField, EmptyField} \cup Tokens

InstallationIDs == {1, 2}
\* installationID 0 stands for a record whose installationID is null.
InstRecords == [installationID : {0} \cup InstallationIDs, customerID : {1, 2},
                meterPoints : {<< 0, 1 >>}]
SeqsUpTo(S, n) == UNION {[1..k -> S] : k \in 0..n}
InstLists == SeqsUpTo(InstRecords, MaxInsts)

NullBody == [shape |-> "null", error |-> "absent", success |-> "absent",
             token |-> AbsentField, insts |-> << >>]
LoginBodies == [shape : {"dict"}, error : {"absent", "empty", "msg"},
                success : {"absent", "true", "false"}, token : TokenFields,
                insts : {<< >>}]
FlatBodies == [shape : {"dict"}, error : {"absent", "msg"}, success : {"absent"},
               token : {AbsentField}, insts : {<< >>}]
ListBodies == [shape : {"list"}, error : {"absent"}, success : {"absent"},
               token : {AbsentField}, insts : InstLists]
Bodies(p) == IF p = LoginPath THEN LoginBodies
             ELSE IF p = "getInstallations" THEN FlatBodies \cup ListBodies
             ELSE FlatBodies

\* What the transport does with one POST.
Outcomes(p) == [kind : {"ClientError", "TimeoutError", "Non200"}, body : {NullBody}]
               \cup [kind : {"OK"}, body : Bodies(p)]
NoOutcome == [kind |-> "none", body |-> NullBody]

\* The keys of a flat JSON object, as iterating a dict yields them.
DictKeys(b) == (IF b.error # "absent" THEN {"error"} ELSE {})
               \cup (IF b.success # "absent" THEN {"success"} ELSE {})
               \cup (IF b.token.kind # "absent" THEN {"token"} ELSE {})

(***************************************************************************)
(* Installations                                                           *)
(***************************************************************************)
NoInstallation == [present |-> FALSE, customerID |-> 0, meters |-> {}]
\* SNGrazInstallation.__init__: a meter point without an id is skipped.
NewInstallation(rec) ==
    [present |-> TRUE, customerID |-> rec.customerID,
     meters |-> {rec.meterPoints[i] : i \in DOMAIN rec.meterPoints} \ {0}]

UpsertAllMutPrune(m, list) ==
    [i \in InstallationIDs |->
        IF \E k \in DOMAIN list : list[k].installationID = i
        THEN NewInstallation(list[CHOOSE k \in DOMAIN list :
                                    /\ list[k].installationID = i
                                    /\ \A j \in DOMAIN list :
                                          list[j].installationID = i => j <= k])
        ELSE NoInstallation]

\* The loop of update_info over a list response.
RECURSIVE UpsertAll(_, _)
UpsertAll(m, list) ==
    IF list = << >> THEN m
    ELSE LET rec == Head(list)
             m1 == IF rec.installationID = 0 THEN m
                   ELSE [m EXCEPT ![rec.installationID] = NewInstallation(rec)]
         IN UpsertAll(m1, Tail(list))

(***************************************************************************)
(* Results of a public coroutine                                           *)
(***************************************************************************)
NoResult == [kind |-> "none", val |-> "", at |-> 0]
Returned(v) == [kind |-> "return", val |-> v, at |-> now]
Raised(e) == [kind |-> "raise", val |-> e, at |-> now]
NoRequest == [path |-> "", auth |-> NoToken, builtAt |-> 0]

TypeOK ==
    /\ now \in 0..MaxTime
    /\ jwt \in {NoToken} \cup Tokens
    /\ installations \in [InstallationIDs -> {NoInstallation} \cup
                             {NewInstallation(r) : r \in InstRecords}]
    /\ pc \in [Tasks -> {"idle", "wait", "done"}]
    /\ op \in [Tasks -> {"", "query", "authenticate", "update_info"}]
    /\ path \in [Tasks -> {""} \cup Paths]
    /\ phase \in [Tasks -> {"", "login", "main"}]
    /\ retry \in [Tasks -> 0..DefaultRetry]
    /\ posts \in [Tasks -> 0..(DefaultRetry + 1)]
    /\ failures \in [Tasks -> 0..(DefaultRetry + 1)]

FanInsts == 1..MaxFanInsts
FanMeters == 1..MaxFanMeters

SessionInit ==
    /\ now = 0
    /\ jwt = NoToken
    /\ installations = [i \in InstallationIDs |-> NoInstallation]
    /\ pc = [t \in Tasks |-> "idle"]
    /\ op = [t \in Tasks |-> ""]
    /\ path = [t \in Tasks |-> ""]
    /\ phase = [t \in Tasks |-> ""]
    /\ retry = [t \in Tasks |-> 0]
    /\ sent = [t \in Tasks |-> NoRequest]
    /\ inbox = [t \in Tasks |-> NoOutcome]
    /\ result = [t \in Tasks |-> NoResult]
    /\ posts = [t \in Tasks |-> 0]
    /\ failures = [t \in Tasks |-> 0]
    /\ okLog = << >>

\* No fetch_consumption_data has been called.
FanIdle ==
    /\ acct = "idle"
    /\ instTask = [i \in FanInsts |-> "idle"]
    /\ meterTask = [m \in FanMeters |-> "idle"]
    /\ gatherAcct = "none"
    /\ gatherInst = [i \in FanInsts |-> "none"]
    /\ meterData = [m \in FanMeters |-> "unset"]

(***************************************************************************)
(* A step of a coroutine ends either with a new POST in flight ("post") or *)
(* with the public coroutine finished ("end").  The operators below        *)
(* compute that end of step; Apply writes it to the state.  evals are the  *)
(* evaluations of the ok property the step has made so far.                *)
(***************************************************************************)
\* _query up to its await of websession.post: the headers are built, with
\* the Authorization header only if the ok property holds.
Post(p, r, ph, j, evals, fresh) ==
    [act |-> "post", path |-> p, retry |-> r, phase |-> ph,
     jwt |-> JwtAfterOk(j, now), log |-> Append(evals, OkEntry(j, now)),
     auth |-> IF ok(j, now) THEN j ELSE NoToken, fresh |-> fresh,
     res |-> NoResult, insts |-> installations]

End(res, j, evals, insts) ==
    [act |-> "end", path |-> "", retry |-> 0, phase |-> "",
     jwt |-> j, log |-> IF evals = << >> THEN okLog ELSE evals,
     auth |-> NoToken, fresh |-> FALSE, res |-> res, insts |-> insts]

\* A call _query(path, payload) with the default retry argument.
RawQuery(p, ph, j, evals) == Post(p, DefaultRetry, ph, j, evals, TRUE)

\* authenticate() up to the POST of the login request.
AuthenticateEntry(j, evals) == RawQuery(LoginPath, "login", j, evals)

QueryEntryMutDedup(p) ==
    LET e == OkEntry(jwt, now)
    IN IF e.ret \/ \E u \in Tasks : pc[u] = "wait" /\ phase[u] = "login"
       THEN RawQuery(p, "main", e.after, << e >>)
       ELSE AuthenticateEntry(e.after, << e >>)

\* query(path, payload) up to its first POST.
QueryEntry(p) ==
    LET e == OkEntry(jwt, now)
    IN IF e.ret THEN RawQuery(p, "main", e.after, << e >>)
       ELSE AuthenticateEntry(e.after, << e >>)

\* The except clauses of _query: which failure is tried again.
RetryOnMutOneMore(kind, r) == kind = "ClientError" /\ r >= 0
RetryOnMutTimeout(kind, r) == kind \in {"ClientError", "TimeoutError"} /\ r > 0
RetryOn(kind, r) == kind = "ClientError" /\ r > 0

\* query() after its _query call has returned res.
QueryResume(res, j, evals) ==
    End(Returned(IF res = NullBody THEN "None" ELSE "body"), j, evals, installations)

\* update_info() after query("getInstallations") has returned res.  A flat
\* object is iterated by its keys, which are strings and have no get().
UpdateInfoResume(res, j, evals) ==
    IF res = NullBody THEN End(Returned("None"), j, evals, installations)
    ELSE IF res.shape = "list"
    THEN End(Returned("None"), j, evals, UpsertAll(installations, res.insts))
    ELSE IF DictKeys(res) = {} THEN End(Returned("None"), j, evals, installations)
    ELSE End(Raised("AttributeError"), j, evals, installations)

\* The caller of authenticate() once it has returned v without raising.
AfterAuthenticate(t, v, j, evals) ==
    IF op[t] = "authenticate" THEN End(Returned(v), j, evals, installations)
    ELSE RawQuery(path[t], "main", j, evals)

\* authenticate() after its _query call has returned resp.
AuthenticateResumeMutNoSuccessCheck(t, resp) ==
    IF resp = NullBody THEN AfterAuthenticate(t, "False", jwt, << >>)
    ELSE IF resp.error # "absent" /\ resp.error # "empty"
    THEN End(Raised("InvalidLogin"), jwt, << >>, installations)
    ELSE IF resp.token.kind \in {"absent", "empty"}
    THEN End(Raised("ValueError"), jwt, << >>, installations)
    ELSE LET e == OkEntry(resp.token, now)
         IN IF ~e.ret THEN End(Raised("Exception"), e.after, << e >>, installations)
            ELSE AfterAuthenticate(t, "True", e.after, << e >>)
AuthenticateResume(t, resp) ==
    IF resp = NullBody THEN AfterAuthenticate(t, "False", jwt, << >>)
    ELSE IF resp.error # "absent" /\ resp.error # "empty"
    THEN End(Raised("InvalidLogin"), jwt, << >>, installations)
    ELSE IF resp.success = "false" \/ resp.token.kind \in {"absent", "empty"}
    THEN End(Raised("ValueError"), jwt, << >>, installations)
    ELSE LET e == OkEntry(resp.token, now)
         IN IF ~e.ret THEN End(Raised("Exception"), e.after, << e >>, installations)
            ELSE AfterAuthenticate(t, "True", e.after, << e >>)

\* The frame that awaits the active _query call gets its return value.
Resume(t, res) ==
    IF phase[t] = "login" THEN AuthenticateResume(t, res)
    ELSE IF op[t] = "update_info" THEN UpdateInfoResume(res, jwt, << >>)
    ELSE QueryResume(res, jwt, << >>)

\* _query from the end of its await to its return, raise or next POST.
HandleOutcomeMutSwallow(t, o) ==
    IF o.kind \in {"ClientError", "TimeoutError"}
    THEN IF RetryOn(o.kind, retry[t])
         THEN Post(sent[t].path, retry[t] - 1, phase[t], jwt, << >>, FALSE)
         ELSE Resume(t, NullBody)
    ELSE IF o.kind = "Non200" THEN Resume(t, NullBody)
    ELSE Resume(t, o.body)
HandleOutcome(t, o) ==
    IF o.kind \in {"ClientError", "TimeoutError"}
    THEN IF RetryOn(o.kind, retry[t])
         THEN Post(sent[t].path, retry[t] - 1, phase[t], jwt, << >>, FALSE)
         ELSE End(Raised(o.kind), jwt, << >>, installations)
    ELSE IF o.kind = "Non200" THEN Resume(t, NullBody)
    ELSE Resume(t, o.body)

Apply(t, r, o) ==
    /\ jwt' = r.jwt
    /\ okLog' = r.log
    /\ installations' = r.insts
    /\ inbox' = [inbox EXCEPT ![t] = o]
    /\ failures' = [failures EXCEPT ![t] =
                       IF r.act = "post" /\ r.fresh THEN 0
                       ELSE IF o.kind = "ClientError" THEN @ + 1 ELSE @]
    /\ IF r.act = "post"
       THEN /\ pc' = [pc EXCEPT ![t] = "wait"]
            /\ sent' = [sent EXCEPT ![t] =
                           [path |-> r.path, auth |-> r.auth, builtAt |-> now]]
            /\ retry' = [retry EXCEPT ![t] = r.retry]
            /\ phase' = [phase EXCEPT ![t] = r.phase]
            /\ posts' = [posts EXCEPT ![t] = IF r.fresh THEN 1 ELSE @ + 1]
            /\ UNCHANGED result
       ELSE /\ pc' = [pc EXCEPT ![t] = "done"]
            /\ result' = [result EXCEPT ![t] = r.res]
            /\ UNCHANGED << sent, retry, phase, posts >>

(***************************************************************************)
(* Actions of the session                                                  *)
(***************************************************************************)
\* A caller awaits query(p).
Query(t, p) ==
    /\ pc[t] = "idle"
    /\ op' = [op EXCEPT ![t] = "query"]
    /\ path' = [path EXCEPT ![t] = p]
    /\ Apply(t, QueryEntry(p), NoOutcome)
    /\ UNCHANGED << now, fanVars, meterVars >>

\* A caller awaits authenticate().
Authenticate(t) ==
    /\ pc[t] = "idle"
    /\ op' = [op EXCEPT ![t] = "authenticate"]
    /\ UNCHANGED path
    /\ Apply(t, AuthenticateEntry(jwt, << >>), NoOutcome)
    /\ UNCHANGED << now, fanVars, meterVars >>

\* A caller awaits update_info().
UpdateInfo(t) ==
    /\ pc[t] = "idle"
    /\ op' = [op EXCEPT ![t] = "update_info"]
    /\ path' = [path EXCEPT ![t] = "getInstallations"]
    /\ Apply(t, QueryEntry("getInstallations"), NoOutcome)
    /\ UNCHANGED << now, fanVars, meterVars >>

\* The transport settles the POST in flight and the coroutine runs on.
RespondWith(t, outcomes) ==
    /\ pc[t] = "wait"
    /\ \E o \in outcomes : Apply(t, HandleOutcome(t, o), o)
    /\ UNCHANGED << now, op, path, fanVars, meterVars >>

Respond(t) == RespondWith(t, Outcomes(sent[t].path))

\* The caller takes the result; the task is free for the next call.
Return(t) ==
    /\ pc[t] = "done"
    /\ pc' = [pc EXCEPT ![t] = "idle"]
    /\ op' = [op EXCEPT ![t] = ""]
    /\ path' = [path EXCEPT ![t] = ""]
    /\ phase' = [phase EXCEPT ![t] = ""]
    /\ retry' = [retry EXCEPT ![t] = 0]
    /\ sent' = [sent EXCEPT ![t] = NoRequest]
    /\ inbox' = [inbox EXCEPT ![t] = NoOutcome]
    /\ result' = [result EXCEPT ![t] = NoResult]
    /\ posts' = [posts EXCEPT ![t] = 0]
    /\ failures' = [failures EXCEPT ![t] = 0]
    /\ UNCHANGED << now, jwt, installations, okLog, fanVars, meterVars >>

\* Time passes.
Tick ==
    /\ now < MaxTime
    /\ now' = now + 1
    /\ UNCHANGED << jwt, installations, pc, op, path, phase, retry, sent, inbox,
                    result, posts, failures, okLog, fanVars, meterVars >>

Next ==
    \/ \E p \in Paths : Query(MainTask, p)
    \/ Authenticate(MainTask)
    \/ UpdateInfo(MainTask)
    \/ Respond(MainTask)
    \/ Return(MainTask)
    \/ Tick

(***************************************************************************)
(* Properties of the session                                               *)
(***************************************************************************)
\* C1: one _query call makes at most three POSTs; three connection errors in
\* a row end it by raising the connection error (not by returning None), and
\* a query whose request succeeds after at most two connection errors
\* returns the parsed body.
C1_RetryPolicy ==
    \A t \in Tasks :
        /\ posts[t] <= 3
        /\ failures[t] = 3 =>
              /\ pc[t] = "done"
              /\ posts[t] = 3
              /\ result[t].kind = "raise" /\ result[t].val = "ClientError"
        /\ (pc[t] = "done" /\ op[t] = "query" /\ phase[t] = "main"
                /\ inbox[t].kind = "OK" /\ failures[t] <= 2) =>
              result[t].kind = "return" /\ result[t].val = "body"

C1_Witness ==
    \E t \in Tasks :
        /\ pc[t] = "done" /\ op[t] = "query" /\ phase[t] = "main"
        /\ failures[t] = 2 /\ posts[t] = 3 /\ inbox[t].kind = "OK"
        /\ result[t].kind = "return"

\* C2: a timed-out attempt ends the call at once by raising the timeout (one
\* attempt more than the connection errors before it, so exactly one when the
\* transport always times out); a non-200 attempt is not retried either: the
\* coroutine returns without raising, or, when it was query's login request,
\* goes on to the first attempt of the request for its own path.
C2_NoRetryOnTimeoutOrStatus ==
    \A t \in Tasks :
        /\ inbox[t].kind = "TimeoutError" =>
              /\ pc[t] = "done"
              /\ result[t].kind = "raise" /\ result[t].val = "TimeoutError"
              /\ posts[t] = failures[t] + 1
        /\ inbox[t].kind = "Non200" =>
              \/ /\ pc[t] = "done"
                 /\ result[t].kind = "return" /\ result[t].val \in {"None", "False"}
              \/ /\ pc[t] = "wait" /\ op[t] \in {"query", "update_info"}
                 /\ phase[t] = "main" /\ sent[t].path # LoginPath /\ posts[t] = 1

C2_Witness ==
    \E t \in Tasks :
        /\ pc[t] = "done" /\ inbox[t].kind = "TimeoutError"
        /\ posts[t] = 1 /\ result[t].kind = "raise"

\* C3: every evaluation of the ok property returns false when no token is
\* held, returns false and clears the token when the token does not decode or
\* its expiry is in the past, and returns true only for a JWT whose expiry is
\* in the future, which it leaves in place; the token held afterwards is the
\* one the last evaluation left.
C3_TokenValidity ==
    /\ \A i \in DOMAIN okLog :
          LET e == okLog[i]
          IN /\ e.tok.kind = "none" => ~e.ret /\ e.after = NoToken
             /\ (e.tok.kind = "garbage" \/ (e.tok.kind = "jwt" /\ e.tok.exp < e.at)) =>
                   ~e.ret /\ e.after = NoToken
             /\ e.ret => e.tok.kind = "jwt" /\ e.tok.exp > e.at /\ e.after = e.tok
             /\ i > 1 => e.tok = okLog[i - 1].after
    /\ okLog # << >> => jwt = okLog[Len(okLog)].after

C3_Witness ==
    /\ okLog # << >>
    /\ okLog[1].tok.kind = "jwt" /\ okLog[1].tok.exp < okLog[1].at
    /\ ~okLog[1].ret
    /\ jwt = NoToken

\* C4: when authenticate() has received a login body and the coroutine has
\* ended in it: a non-empty error gives InvalidLogin, else non-success or a
\* missing token gives ValueError, both with the stored token untouched; else
\* the token is stored and re-checked, an invalid one gives Exception (and is
\* cleared), a valid one makes authenticate() return True holding that token.
C4_AuthenticateOutcomes ==
    \A t \in Tasks :
        (pc[t] = "done" /\ phase[t] = "login" /\ inbox[t].kind = "OK") =>
            LET b == inbox[t].body
                r == result[t]
            IN IF b.error = "msg"
               THEN r.kind = "raise" /\ r.val = "InvalidLogin" /\ jwt = sent[t].auth
               ELSE IF b.success = "false" \/ b.token.kind \in {"absent", "empty"}
               THEN r.kind = "raise" /\ r.val = "ValueError" /\ jwt = sent[t].auth
               ELSE IF b.token.kind # "jwt" \/ b.token.exp <= r.at
               THEN r.kind = "raise" /\ r.val = "Exception" /\ jwt = NoToken
               ELSE /\ op[t] = "authenticate"
                    /\ r.kind = "return" /\ r.val = "True"
                    /\ jwt = b.token

C4_Witness ==
    \E t \in Tasks :
        /\ pc[t] = "done" /\ phase[t] = "login" /\ inbox[t].kind = "OK"
        /\ inbox[t].body.error = "absent" /\ inbox[t].body.success = "true"
        /\ inbox[t].body.token.kind = "jwt"
        /\ result[t].kind = "raise" /\ result[t].val = "Exception"

\* C5: every request in flight for a path other than login carries an
\* Authorization header with a token that was valid when the request was
\* built.
C5_RequestsAuthenticated ==
    \A t \in Tasks :
        (pc[t] = "wait" /\ sent[t].path # LoginPath) =>
            sent[t].auth.kind = "jwt" /\ sent[t].auth.exp > sent[t].builtAt

\* What C6 counts as a failure of a mandatory request.
FlatError(o) == o.kind = "OK" /\ o.body.shape = "dict" /\ o.body.error = "msg"
HardFailure(o) == o.kind \in {"ClientError", "TimeoutError"} \/ FlatError(o)

\* C6 as stated: authenticate() and update_info() end by raising whenever
\* their last request ended in a connection error, a timeout, a non-200
\* status or a flat response with a non-empty error.
C6_MandatoryFailuresRaise ==
    \A t \in Tasks :
        (pc[t] = "done" /\ op[t] \in {"authenticate", "update_info"}
            /\ (HardFailure(inbox[t]) \/ inbox[t].kind = "Non200")) =>
            result[t].kind = "raise"

\* C6 as amended: they end by raising after a connection error past the
\* retry budget, a timeout or a flat response with a non-empty error; after a
\* non-200 status they return without raising (authenticate() False,
\* update_info() None).
C6_HardFailuresRaise ==
    \A t \in Tasks :
        (pc[t] = "done" /\ op[t] \in {"authenticate", "update_info"}) =>
            /\ HardFailure(inbox[t]) => result[t].kind = "raise"
            /\ inbox[t].kind = "Non200" =>
                  /\ result[t].kind = "return"
                  /\ result[t].val = IF op[t] = "authenticate" THEN "False" ELSE "None"

C6_Witness ==
    \E t \in Tasks :
        /\ pc[t] = "done" /\ op[t] = "update_info" /\ phase[t] = "main"
        /\ FlatError(inbox[t])
        /\ result[t].kind = "raise"

(***************************************************************************)
(* The fan-out of fetch_consumption_data.  asyncio.gather wraps every      *)
(* coroutine it is given in a task at once and returns one future; the     *)
(* coroutine that awaits the future is resumed when the future is done.    *)
(* A meter's fetch is a task that, once it runs, returns or raises.        *)
(***************************************************************************)
MetersOf(i) == {m \in FanMeters : owner[m] = i}
Settled(st) == st \in {"returned", "raised"}

\* The future of asyncio.gather(*tasks) right after the call.
GatherCreated(children) == IF children = {} THEN "result" ELSE "pending"

\* gather's callback on a child that is done (return_exceptions is False):
\* the first exception is set on the future at once, the result once every
\* child is done.
GatherChildDoneMutReturnExceptions(outer, child, allDone) ==
    IF outer # "pending" THEN outer
    ELSE IF allDone THEN "result"
    ELSE "pending"
GatherChildDone(outer, child, allDone) ==
    IF outer # "pending" THEN outer
    ELSE IF child = "raised" THEN "exception"
    ELSE IF allDone THEN "result"
    ELSE "pending"

\* The event loop runs what is ready in the order it became ready: the tasks
\* gather has created start before the completion of any request is handled.
InstsStarted == \A i \in FanInsts : instTask[i] # "scheduled"
AllStarted == InstsStarted /\ \A m \in FanMeters : meterTask[m] # "scheduled"

\* StromNetzGraz.fetch_consumption_data up to its await.
AccountFetch ==
    /\ acct = "idle"
    /\ instTask' = [i \in FanInsts |-> "scheduled"]
    /\ gatherAcct' = GatherCreated(FanInsts)
    /\ acct' = "awaiting"
    /\ UNCHANGED << owner, meterData, meterTask, gatherInst, sessionVars, meterVars >>

\* SNGrazInstallation.fetch_consumption_data up to its await.  Awaiting a
\* future that is done already (an installation without meters) does not
\* suspend: the coroutine returns in the same step.
InstallationFetch(i) ==
    /\ instTask[i] = "scheduled"
    /\ meterTask' = [m \in FanMeters |->
                        IF owner[m] = i THEN "scheduled" ELSE meterTask[m]]
    /\ gatherInst' = [gatherInst EXCEPT ![i] = GatherCreated(MetersOf(i))]
    /\ IF GatherCreated(MetersOf(i)) = "result"
       THEN /\ instTask' = [instTask EXCEPT ![i] = "returned"]
            /\ gatherAcct' = GatherChildDone(gatherAcct, "returned",
                   \A k \in FanInsts \ {i} : Settled(instTask[k]))
       ELSE /\ instTask' = [instTask EXCEPT ![i] = "awaiting"]
            /\ UNCHANGED gatherAcct
    /\ UNCHANGED << owner, meterData, acct, sessionVars, meterVars >>

\* SNGrazMeter.fetch_consumption_data starts and suspends in a query.
MeterStart(m) ==
    /\ meterTask[m] = "scheduled"
    /\ InstsStarted
    /\ meterTask' = [meterTask EXCEPT ![m] = "running"]
    /\ UNCHANGED << owner, meterData, acct, instTask, gatherAcct, gatherInst, sessionVars, meterVars >>

\* The meter tasks once the fetch of meter m has ended: gather leaves the
\* other children of a failed child alone.
TasksAfterEndMutCancelSiblings(tasks, m, how) ==
    [k \in DOMAIN tasks |->
        IF k = m THEN how
        ELSE IF how = "raised" /\ tasks[k] = "running" THEN "cancelled"
        ELSE tasks[k]]
TasksAfterEnd(tasks, m, how) == [tasks EXCEPT ![m] = how]

\* A meter's fetch ends: by returning, with a new batch stored or after a
\* soft failure with its data as it was, or by raising what query raised.
MeterEnd(m, how) ==
    /\ meterTask[m] = "running"
    /\ AllStarted
    /\ meterTask' = TasksAfterEnd(meterTask, m, how)
    /\ \E stored \in BOOLEAN :
          meterData' = IF how = "returned" /\ stored
                       THEN [meterData EXCEPT ![m] = "batch"]
                       ELSE meterData
    /\ gatherInst' = [gatherInst EXCEPT ![owner[m]] =
           GatherChildDone(@, how,
               \A k \in MetersOf(owner[m]) \ {m} : Settled(meterTask[k]))]
    /\ UNCHANGED << owner, acct, instTask, gatherAcct, sessionVars, meterVars >>

MeterReturn(m) == MeterEnd(m, "returned")
MeterRaise(m) == MeterEnd(m, "raised")

\* An installation's fetch is resumed by its gather future and ends.
InstallationResume(i) ==
    /\ instTask[i] = "awaiting"
    /\ AllStarted
    /\ gatherInst[i] \in {"result", "exception"}
    /\ LET how == IF gatherInst[i] = "result" THEN "returned" ELSE "raised"
       IN /\ instTask' = [instTask EXCEPT ![i] = how]
          /\ gatherAcct' = GatherChildDone(gatherAcct, how,
                 \A k \in FanInsts \ {i} : Settled(instTask[k]))
    /\ UNCHANGED << owner, meterData, acct, meterTask, gatherInst, sessionVars, meterVars >>

\* The account's fetch is resumed by its gather future and ends.
AccountResume ==
    /\ acct = "awaiting"
    /\ gatherAcct \in {"result", "exception"}
    /\ acct' = IF gatherAcct = "result" THEN "returned" ELSE "raised"
    /\ UNCHANGED << owner, meterData, instTask, meterTask, gatherAcct, gatherInst, sessionVars, meterVars >>

NextFanout ==
    \/ AccountFetch
    \/ \E i \in FanInsts : InstallationFetch(i)
    \/ \E m \in FanMeters : MeterStart(m)
    \/ \E m \in FanMeters : MeterReturn(m)
    \/ \E m \in FanMeters : MeterRaise(m)
    \/ \E i \in FanInsts : InstallationResume(i)
    \/ AccountResume

Launched(st) == st # "idle"

\* C7 as stated: the account's fetch ends, normally or with a failure, only
\* when no launched installation or meter fetch is still outstanding.
C7_EndsAfterAllSettled ==
    acct \in {"returned", "raised"} =>
        /\ \A i \in FanInsts : Launched(instTask[i]) => Settled(instTask[i])
        /\ \A m \in FanMeters : Launched(meterTask[m]) => Settled(meterTask[m])

\* C7 as amended: the account's fetch ends normally only when every
\* installation and meter fetch has returned; it ends with a failure only
\* after a meter fetch and the fetch of its installation have raised, and
\* then without waiting for the fetches still outstanding.
C7_NormalEndAfterAllSettled ==
    /\ acct = "returned" =>
          /\ \A i \in FanInsts : instTask[i] = "returned"
          /\ \A m \in FanMeters : meterTask[m] = "returned"
    /\ acct = "raised" =>
          \E m \in FanMeters :
              meterTask[m] = "raised" /\ instTask[owner[m]] = "raised"

C7_Witness ==
    /\ acct = "raised"
    /\ \E m \in FanMeters : meterTask[m] = "running"
    /\ \E i \in FanInsts : instTask[i] = "awaiting"

(***************************************************************************)
(* One SNGrazMeter.  Time is counted in half hours, so that zeroing the    *)
(* minute or the hour of a datetime changes its value.  None is -1 where   *)
(* the value is a number or a time.                                        *)
(***************************************************************************)
None == 0 - 1
UnitsPerHour == 2
UnitsPerDay == 48
ScanDays == 7
MaxScan == 2

MCallers == {"c1", "c2"}
MainCaller == "c1"

\* datetime.replace(..., minute=0) and datetime.replace(hour=0, minute=0)
ZeroMinute(t) == t - (t % UnitsPerHour)
ZeroHourMinute(t) == t - (t % UnitsPerDay)

\* The arguments of the public operations and the answers of the server.
UtcNows == {197}
DaysArgs == {1, 30}
AvailableSince == {121}

\* A list a coroutine holds or returns: None or a Python list.
NoneList == [isNone |-> TRUE, list |-> << >>]
SomeList(l) == [isNone |-> FALSE, list |-> l]

\* Reading records of a getMeterReading response.
SubValue(ty, v, st) == [readingType |-> ty, value |-> v, readingState |-> st]
ReadingValueLists ==
    { << SubValue("CONSUMP", 5, "Valid"), SubValue("MR", 9, "Estimated") >>,
      << SubValue("MR", 7, "Valid") >>,
      << SubValue("CONSUMP", 6, "Estimated"), SubValue("MR", 0, "Valid") >>,
      << SubValue("CONSUMP", 5, "Estimated") >> }
ReadTimes == {[at |-> 1, suffix |-> "Z"], [at |-> 2, suffix |-> "+00:00"]}
Readings == [readTime : ReadTimes, readingValues : ReadingValueLists]
ReadingLists == SeqsUpTo(Readings, 2)

\* What query() gives the meter: it raises, returns None, or returns a body.
MetaOutcomes == [kind : {"raise", "None"}, since : {None}]
                \cup [kind : {"body"}, since : {None} \cup AvailableSince]
ReadingOutcomes == [kind : {"raise", "None"}, readings : {<< >>}]
                   \cup [kind : {"body"}, readings : ReadingLists]

\* The loop over reading.get("readingValues"): the sparse type -> value
\* mapping of the sub-values whose state is "Valid".
RECURSIVE SparseMapMutKeepAll(_, _)
SparseMapMutKeepAll(rvs, res) ==
    IF rvs = << >> THEN res
    ELSE LET rv == Head(rvs)
         IN SparseMapMutKeepAll(Tail(rvs), (rv.readingType :> rv.value) @@ res)
RECURSIVE SparseMap(_, _)
SparseMap(rvs, res) ==
    IF rvs = << >> THEN res
    ELSE LET rv == Head(rvs)
         IN SparseMap(Tail(rvs),
                      IF rv.readingState # "Valid" THEN res
                      ELSE (rv.readingType :> rv.value) @@ res)

\* datetime.fromisoformat after a trailing "Z" is rewritten to "+00:00".
ParseReadTime(d) ==
    LET iso == IF d.suffix = "Z" THEN [d EXCEPT !.suffix = "+00:00"] ELSE d
    IN iso.at

\* "Update last value trackers" for one record res of the result.
UpdateTrackersMutAlways(m, res) ==
    LET t == res["readTime"]
        m1 == IF "CONSUMP" \in DOMAIN res
              THEN [m EXCEPT !.lastConsumptionDate = t,
                             !.lastConsumption = res["CONSUMP"]]
              ELSE m
    IN IF "MR" \in DOMAIN res
       THEN [m1 EXCEPT !.lastReadingDate = t, !.lastReading = res["MR"]]
       ELSE m1
UpdateTrackersMutNotStrict(m, res) ==
    LET t == res["readTime"]
        m1 == IF "CONSUMP" \in DOMAIN res
                  /\ (m.lastConsumptionDate = None \/ t >= m.lastConsumptionDate)
              THEN [m EXCEPT !.lastConsumptionDate = t,
                             !.lastConsumption = res["CONSUMP"]]
              ELSE m
    IN IF "MR" \in DOMAIN res
          /\ (m1.lastReadingDate = None \/ t >= m1.lastReadingDate)
       THEN [m1 EXCEPT !.lastReadingDate = t, !.lastReading = res["MR"]]
       ELSE m1
UpdateTrackers(m, res) ==
    LET t == res["readTime"]
        m1 == IF "CONSUMP" \in DOMAIN res
                  /\ (m.lastConsumptionDate = None \/ t > m.lastConsumptionDate)
              THEN [m EXCEPT !.lastConsumptionDate = t,
                             !.lastConsumption = res["CONSUMP"]]
              ELSE m
    IN IF "MR" \in DOMAIN res
          /\ (m1.lastReadingDate = None \/ t > m1.lastReadingDate)
       THEN [m1 EXCEPT !.lastReadingDate = t, !.lastReading = res["MR"]]
       ELSE m1

\* The loop of _fetch_data over the readings of the response.
RECURSIVE FetchLoop(_, _, _)
FetchLoop(readings, m, out) ==
    IF readings = << >> THEN [meter |-> m, result |-> out]
    ELSE LET reading == Head(readings)
             vals == SparseMap(reading.readingValues, << >>)
             res == ("readingValues" :> reading.readingValues)
                    @@ ("readTime" :> ParseReadTime(reading.readTime))
                    @@ vals
         IN IF DOMAIN vals = {} THEN FetchLoop(Tail(readings), m, out)
            ELSE FetchLoop(Tail(readings), UpdateTrackers(m, res),
                           Append(out, res))

\* The payloads of the two requests a meter makes.
NoPayload == [path |-> "", interval |-> "", fromDate |-> None, toDate |-> None]
MetaPayload == [path |-> "getMeterReadingMetaData", interval |-> "",
                fromDate |-> None, toDate |-> None]
ReadingPayload(interval, startTime, endTime) ==
    [path |-> "getMeterReading", interval |-> interval,
     fromDate |-> startTime, toDate |-> endTime]

NoReturn == [kind |-> "none", val |-> None]
IdleFrame ==
    [pc |-> "idle", op |-> "", at |-> "", startTime |-> None, endTime |-> None,
     fdStart |-> None, fdEnd |-> None, interval |-> "", payload |-> NoPayload,
     scans |-> 0, got |-> "", resp |-> NoneList, served |-> << >>,
     result |-> NoReturn]

NewMeter(optState) ==
    [optState |-> optState, data |-> NoneList, firstReading |-> None,
     firstReadingDate |-> None, lastConsumptionDate |-> None,
     lastConsumption |-> None, lastReadingDate |-> None, lastReading |-> None]

\* The end of a coroutine step of the meter: the meter and the caller's frame.
St(m, f) == [meter |-> m, frame |-> f]
Done(m, f, kind, val) ==
    St(m, [f EXCEPT !.pc = "done", !.result = [kind |-> kind, val |-> val]])

SendReadingsMutNoClamp(m, f, startTime, endTime, interval) ==
    St(m, [f EXCEPT !.pc = "waitReadings", !.served = << >>,
                    !.fdStart = startTime, !.fdEnd = endTime,
                    !.interval = interval,
                    !.payload = ReadingPayload(interval, startTime, endTime)])

\* _fetch_data from the clamp of startTime to the await of the reading query.
SendReadings(m, f, startTime, endTime, interval) ==
    LET first_reading == m.firstReadingDate
        clamped == IF startTime < first_reading THEN first_reading ELSE startTime
    IN St(m, [f EXCEPT !.pc = "waitReadings", !.served = << >>,
                       !.fdStart = clamped, !.fdEnd = endTime,
                       !.interval = interval,
                       !.payload = ReadingPayload(interval, clamped, endTime)])

\* _fetch_data once the interval is chosen: the first reading date is
\* awaited (a query, unless it is cached) and the reading query is sent.
AfterMode(m, f, startTime, endTime, interval) ==
    IF m.firstReadingDate = None
    THEN St(m, [f EXCEPT !.pc = "waitMeta", !.at = "fetch_data",
                         !.fdStart = startTime, !.fdEnd = endTime,
                         !.interval = interval, !.payload = MetaPayload])
    ELSE SendReadings(m, f, startTime, endTime, interval)

\* The meter after fetch_consumption_data got r from _fetch_data.
AfterFetchConsumptionMutStoreNone(m, r) == [m EXCEPT !.data = r]
AfterFetchConsumption(m, r) == IF r.isNone THEN m ELSE [m EXCEPT !.data = r]

\* The meter after get_historic_data got r from _fetch_data: r is returned
\* (the caller finds it in resp) and nothing is stored.
AfterGetHistoricMutStores(m, r) == IF r.isNone THEN m ELSE [m EXCEPT !.data = r]
AfterGetHistoric(m, r) == m

\* FetchData: _fetch_data(startTime, endTime) up to its first await.
\* FetchDataReturn: the public operation once _fetch_data has returned r.
RECURSIVE FetchData(_, _, _, _)
RECURSIVE FetchDataReturn(_, _, _)
FetchDataMutNoMidnight(m, f, startTime, endTime) ==
    IF m.optState = "OptMiddle"
    THEN AfterMode(m, f, startTime, endTime, "Daily")
    ELSE IF m.optState = "OptIn"
    THEN AfterMode(m, f, startTime, endTime, "QuarterHourly")
    ELSE FetchDataReturn(m, f, NoneList)

FetchData(m, f, startTime, endTime) ==
    IF m.optState = "OptMiddle"
    THEN AfterMode(m, f, startTime, ZeroHourMinute(endTime), "Daily")
    ELSE IF m.optState = "OptIn"
    THEN AfterMode(m, f, startTime, endTime, "QuarterHourly")
    ELSE FetchDataReturn(m, f, NoneList)

FetchDataReturnMutStopOnEmpty(m, f, r) ==
    LET g == [f EXCEPT !.resp = r]
    IN IF f.op = "fetch_consumption_data"
       THEN Done(AfterFetchConsumption(m, r), g, "return", None)
       ELSE IF f.op = "get_historic_data"
       THEN Done(AfterGetHistoric(m, r), g, "return", None)
       ELSE IF r.isNone THEN Done(m, g, "return", None)
            ELSE LET startTime == f.startTime + ScanDays * UnitsPerDay
                     endTime == startTime + ScanDays * UnitsPerDay
                     h == [g EXCEPT !.startTime = startTime, !.endTime = endTime,
                                    !.scans = @ + 1]
                 IN IF Len(r.list) = 0 \/ "MR" \notin DOMAIN r.list[1]
                    THEN Done(m, h, "return", None)
                    ELSE Done([m EXCEPT !.firstReading = r.list[1]["MR"]],
                              h, "return", r.list[1]["MR"])

FetchDataReturn(m, f, r) ==
    LET g == [f EXCEPT !.resp = r]
    IN IF f.op = "fetch_consumption_data"
       THEN Done(AfterFetchConsumption(m, r), g, "return", None)
       ELSE IF f.op = "get_historic_data"
       THEN Done(AfterGetHistoric(m, r), g, "return", None)
       ELSE \* get_first_reading: the body of the while loop and its test
            IF r.isNone THEN Done(m, g, "return", None)
            ELSE LET startTime == f.startTime + ScanDays * UnitsPerDay
                     endTime == startTime + ScanDays * UnitsPerDay
                     h == [g EXCEPT !.startTime = startTime, !.endTime = endTime,
                                    !.scans = @ + 1]
                 IN IF Len(r.list) = 0 THEN FetchData(m, h, startTime, endTime)
                    ELSE IF "MR" \notin DOMAIN r.list[1]
                    THEN Done(m, h, "return", None)
                    ELSE Done([m EXCEPT !.firstReading = r.list[1]["MR"]],
                              h, "return", r.list[1]["MR"])

\* get_first_reading once the first reading date is known.
FirstScan(m, f) ==
    LET startTime == m.firstReadingDate
        endTime == startTime + ScanDays * UnitsPerDay
    IN FetchData(m, [f EXCEPT !.startTime = startTime, !.endTime = endTime],
                 startTime, endTime)

\* The window of fetch_consumption_data and get_historic_data.
WindowEnd(utcnow) == ZeroMinute(utcnow)
WindowStart(utcnow, days) == WindowEnd(utcnow) - days * UnitsPerDay

\* The newest readTime the meter was served so far: among all records (any)
\* and among the records that carry a Valid MR sub-value (mr).
MrValid(reading) ==
    \E i \in DOMAIN reading.readingValues :
        /\ reading.readingValues[i].readingType = "MR"
        /\ reading.readingValues[i].readingState = "Valid"
Newest(old, stamps) == IF \A t \in stamps : t <= old THEN old
                       ELSE CHOOSE t \in stamps : \A u \in stamps : u <= t
SeenAfter(h, readings) ==
    [meta |-> h.meta,
     any |-> Newest(h.any, {ParseReadTime(readings[i].readTime) : i \in DOMAIN readings}),
     mr |-> Newest(h.mr, {ParseReadTime(readings[i].readTime) :
                             i \in {k \in DOMAIN readings : MrValid(readings[k])}})]

ApplyMeter(c, st, h) ==
    /\ meter' = st.meter
    /\ frame' = [frame EXCEPT ![c] = st.frame]
    /\ hist' = h
    /\ UNCHANGED << sessionVars, fanVars >>

(***************************************************************************)
(* Actions of the meter                                                    *)
(***************************************************************************)
FetchConsumptionData(c) ==
    /\ frame[c].pc = "idle"
    /\ \E utcnow \in UtcNows, days \in DaysArgs :
          LET f == [frame[c] EXCEPT !.op = "fetch_consumption_data",
                                    !.startTime = WindowStart(utcnow, days),
                                    !.endTime = WindowEnd(utcnow)]
          IN ApplyMeter(c, FetchData(meter, f, f.startTime, f.endTime), hist)

GetHistoricData(c) ==
    /\ frame[c].pc = "idle"
    /\ \E utcnow \in UtcNows, days \in DaysArgs :
          LET f == [frame[c] EXCEPT !.op = "get_historic_data",
                                    !.startTime = WindowStart(utcnow, days),
                                    !.endTime = WindowEnd(utcnow)]
          IN ApplyMeter(c, FetchData(meter, f, f.startTime, f.endTime), hist)

GetFirstReading(c) ==
    /\ frame[c].pc = "idle"
    /\ LET f == [frame[c] EXCEPT !.op = "get_first_reading"]
       IN IF meter.firstReading # None /\ meter.firstReading # 0
          THEN ApplyMeter(c, Done(meter, f, "return", meter.firstReading), hist)
          ELSE IF meter.firstReadingDate = None
          THEN ApplyMeter(c, St(meter, [f EXCEPT !.pc = "waitMeta",
                                                 !.at = "get_first_reading",
                                                 !.payload = MetaPayload]), hist)
          ELSE ApplyMeter(c, FirstScan(meter, f), hist)

\* The metadata query settles and _get_first_reading_date runs on.
MetaRespond(c) ==
    /\ frame[c].pc = "waitMeta"
    /\ \E o \in MetaOutcomes :
          LET f == [frame[c] EXCEPT !.got = o.kind]
          IN IF o.kind = "raise" THEN ApplyMeter(c, Done(meter, f, "raise", None), hist)
             ELSE IF o.kind = "None"
             THEN IF f.at = "fetch_data"
                  THEN ApplyMeter(c, FetchDataReturn(meter, f, NoneList), hist)
                  ELSE ApplyMeter(c, Done(meter, f, "return", None), hist)
             ELSE IF o.since = None
             THEN ApplyMeter(c, Done(meter, f, "raise", None), hist)
             ELSE LET m == [meter EXCEPT !.firstReadingDate = ZeroMinute(o.since)]
                      h == [hist EXCEPT !.meta = @ + 1]
                  IN IF f.at = "fetch_data"
                     THEN ApplyMeter(c, SendReadings(m, f, f.fdStart, f.fdEnd,
                                                     f.interval), h)
                     ELSE ApplyMeter(c, FirstScan(m, f), h)

\* The reading query settles and _fetch_data runs to its return.
ReadingsRespondWith(c, outcomes) ==
    /\ frame[c].pc = "waitReadings"
    /\ \E o \in outcomes :
          LET f == [frame[c] EXCEPT !.got = o.kind]
          IN IF o.kind = "raise" THEN ApplyMeter(c, Done(meter, f, "raise", None), hist)
             ELSE IF o.kind = "None" \/ o.readings = << >>
             THEN ApplyMeter(c, FetchDataReturn(meter, f, NoneList), hist)
             ELSE LET r == FetchLoop(o.readings, meter, << >>)
                      g == [f EXCEPT !.served = o.readings]
                  IN /\ (f.op = "get_first_reading" /\ r.result = << >>)
                            => f.scans < MaxScan
                     /\ ApplyMeter(c, FetchDataReturn(r.meter, g, SomeList(r.result)),
                                   SeenAfter(hist, o.readings))

ReadingsRespond(c) == ReadingsRespondWith(c, ReadingOutcomes)

\* The caller takes the result.
MeterReturnToCaller(c) ==
    /\ frame[c].pc = "done"
    /\ ApplyMeter(c, St(meter, IdleFrame), hist)

NextMeter ==
    \/ FetchConsumptionData(MainCaller)
    \/ GetHistoricData(MainCaller)
    \/ GetFirstReading(MainCaller)
    \/ MetaRespond(MainCaller)
    \/ ReadingsRespond(MainCaller)
    \/ MeterReturnToCaller(MainCaller)

\* Two callers of one meter at once: the coroutines interleave at their
\* awaits.  The server of this run has one reading record per window at most.
ConcurrentReadingOutcomes ==
    {o \in ReadingOutcomes :
        /\ Len(o.readings) <= 1
        /\ \A i \in DOMAIN o.readings :
              /\ o.readings[i].readTime.at = 1
              /\ o.readings[i].readingValues = << SubValue("MR", 7, "Valid") >>}

ReadingsRespondConcurrent(c) == ReadingsRespondWith(c, ConcurrentReadingOutcomes)

NextMeterConcurrent ==
    \/ \E c \in MCallers : FetchConsumptionData(c)
    \/ \E c \in MCallers : GetHistoricData(c)
    \/ \E c \in MCallers : GetFirstReading(c)
    \/ \E c \in MCallers : MetaRespond(c)
    \/ \E c \in MCallers : ReadingsRespondConcurrent(c)
    \/ \E c \in MCallers : MeterReturnToCaller(c)

(***************************************************************************)
(* Specifications                                                          *)
(***************************************************************************)
MeterIdle(optStates) ==
    /\ meter \in {NewMeter(o) : o \in optStates}
    /\ frame = [c \in MCallers |-> IdleFrame]
    /\ hist = [any |-> None, mr |-> None, meta |-> 0]

\* The session: one caller after the other.
Init ==
    /\ SessionInit
    /\ owner = [m \in FanMeters |-> 1]
    /\ FanIdle
    /\ MeterIdle({"OptIn"})

Spec == Init /\ [][Next]_vars

\* The fan-out of one fetch_consumption_data over any ownership of meters.
InitFanout ==
    /\ SessionInit
    /\ owner \in [FanMeters -> FanInsts]
    /\ FanIdle
    /\ MeterIdle({"OptIn"})

SpecFanout == InitFanout /\ [][NextFanout]_vars

\* The same with the event loop running whatever is ready and every request
\* ending, by an answer or by its timeout.
SpecFanoutFair == InitFanout /\ [][NextFanout]_vars /\ WF_vars(NextFanout)

\* One meter, in any operational mode, called again and again.
InitMeter ==
    /\ SessionInit
    /\ owner = [m \in FanMeters |-> 1]
    /\ FanIdle
    /\ MeterIdle({"OptMiddle", "OptIn", "OptOut"})

SpecMeter == InitMeter /\ [][NextMeter]_vars

\* One quarter-hourly meter with two callers at once.
SpecMeterConcurrent == Init /\ [][NextMeterConcurrent]_vars

(***************************************************************************)
(* Properties of the meter                                                 *)
(***************************************************************************)
Valids(reading, ty) ==
    {i \in DOMAIN reading.readingValues :
        /\ reading.readingValues[i].readingType = ty
        /\ reading.readingValues[i].readingState = "Valid"}
HasValid(reading) ==
    \E i \in DOMAIN reading.readingValues :
        reading.readingValues[i].readingState = "Valid"

\* C8: after each call on a meter the timestamp of the last-reading tracker
\* is at least the timestamp of every reading record the meter was served in
\* that call or in an earlier one.
C8_LastReadingNewest ==
    \A c \in MCallers :
        frame[c].pc = "done" => meter.lastReadingDate >= hist.any

\* C8 as the program has it: the timestamp of the last-reading tracker is at
\* least the timestamp of every served record that carries a Valid MR value.
C8_LastReadingNewestOfValidMR ==
    /\ meter.lastReadingDate >= hist.mr
    /\ hist.mr # None => meter.lastReadingDate # None

C8_Witness ==
    /\ frame[MainCaller].pc = "done"
    /\ frame[MainCaller].op = "get_historic_data"
    /\ hist.mr = 1
    /\ hist.any = 2
    /\ meter.lastReadingDate = 1
    /\ Len(frame[MainCaller].served) = 1
    /\ ParseReadTime(frame[MainCaller].served[1].readTime) = 2

\* One tracker over one step: old and new date, old and new value, and the
\* readings of the response the step handled.
TrackerStep(ty, oldDate, oldValue, newDate, newValue, readings) ==
    /\ newDate >= oldDate
    /\ newDate = oldDate => newValue = oldValue
    /\ newDate # oldDate =>
          \E i \in DOMAIN readings :
              /\ ParseReadTime(readings[i].readTime) = newDate
              /\ newDate > oldDate
              /\ \E k \in Valids(readings[i], ty) :
                    readings[i].readingValues[k].value = newValue

\* C9: the last-consumption and the last-reading tracker never move to an
\* older timestamp; a tracker changes only to a served record that carries a
\* Valid value of its type and is strictly newer than the tracker, and then
\* holds that record's value; its value does not change while its timestamp
\* stays.
C9_IndependentMonotonicTrackers ==
    [][ /\ TrackerStep("CONSUMP", meter.lastConsumptionDate, meter.lastConsumption,
                       meter'.lastConsumptionDate, meter'.lastConsumption,
                       frame'[MainCaller].served)
        /\ TrackerStep("MR", meter.lastReadingDate, meter.lastReading,
                       meter'.lastReadingDate, meter'.lastReading,
                       frame'[MainCaller].served) ]_vars

\* The last-reading tracker kept its newer record against an older Valid MR
\* record, while the last-consumption tracker sits at another timestamp.
C9_Witness ==
    /\ frame[MainCaller].pc = "done"
    /\ Len(frame[MainCaller].served) = 1
    /\ ParseReadTime(frame[MainCaller].served[1].readTime) = 1
    /\ \E k \in Valids(frame[MainCaller].served[1], "MR") :
          frame[MainCaller].served[1].readingValues[k].value = 0
    /\ meter.lastReadingDate = 2
    /\ meter.lastReading = 7
    /\ meter.lastConsumptionDate = 1

\* The shaped record the claim describes for one served record.
Shaped(reading) ==
    LET types == {reading.readingValues[i].readingType :
                     i \in {k \in DOMAIN reading.readingValues :
                               reading.readingValues[k].readingState = "Valid"}}
    IN [key \in types \cup {"readTime", "readingValues"} |->
           IF key = "readTime" THEN reading.readTime.at
           ELSE IF key = "readingValues" THEN reading.readingValues
           ELSE LET last == CHOOSE k \in Valids(reading, key) :
                                \A j \in Valids(reading, key) : j <= k
                IN reading.readingValues[last].value]
ShapedList(readings) ==
    LET kept == SelectSeq(readings, HasValid)
    IN [i \in 1..Len(kept) |-> Shaped(kept[i])]

\* C10: the sequence _fetch_data returns for a served reading list holds, in
\* server order, exactly the records with at least one Valid sub-value; the
\* record of each maps exactly the types of its Valid sub-values to their
\* values, next to its read time and the raw sub-value list as served.
C10_RecordShaping ==
    \A c \in MCallers :
        frame[c].served # << >> =>
            frame[c].resp = SomeList(ShapedList(frame[c].served))

C10_Witness ==
    /\ frame[MainCaller].pc = "done"
    /\ Len(frame[MainCaller].served) = 2
    /\ ~ HasValid(frame[MainCaller].served[1])
    /\ Len(frame[MainCaller].served[2].readingValues) = 2
    /\ Valids(frame[MainCaller].served[2], "MR") = {}
    /\ Len(frame[MainCaller].resp.list) = 1
    /\ DOMAIN frame[MainCaller].resp.list[1] = {"CONSUMP", "readTime", "readingValues"}
    /\ frame[MainCaller].resp.list[1]["readingValues"]
          = frame[MainCaller].served[2].readingValues

Later(a, b) == IF a < b THEN b ELSE a

\* C11: every getMeterReading request of _fetch_data(startTime, endTime) asks
\* from the later of startTime and the first reading date, so never from
\* before the first reading date.
C11_Clamping ==
    \A c \in MCallers :
        frame[c].pc = "waitReadings" =>
            /\ frame[c].payload.path = "getMeterReading"
            /\ meter.firstReadingDate # None
            /\ frame[c].payload.fromDate
                  = Later(frame[c].startTime, meter.firstReadingDate)
            /\ frame[c].payload.fromDate >= meter.firstReadingDate

\* A window that starts before the first reading date is asked from that date.
C11_Witness ==
    /\ frame[MainCaller].pc = "waitReadings"
    /\ frame[MainCaller].op = "fetch_consumption_data"
    /\ frame[MainCaller].startTime < meter.firstReadingDate
    /\ frame[MainCaller].payload.fromDate = meter.firstReadingDate
    /\ frame[MainCaller].payload.fromDate # frame[MainCaller].startTime

\* C12: the mode alone decides the request: OptMiddle asks Daily up to the
\* end time with hour and minute zeroed, OptIn asks QuarterHourly up to the
\* end time as given; in any other mode no reading request is made, a fetch
\* returns without raising and the cached data stays empty.
C12_ModeDecidesRequest ==
    \A c \in MCallers :
        /\ frame[c].pc = "waitReadings" =>
              \/ /\ meter.optState = "OptMiddle"
                 /\ frame[c].payload.interval = "Daily"
                 /\ frame[c].payload.toDate = ZeroHourMinute(frame[c].endTime)
                 /\ frame[c].payload.toDate % UnitsPerDay = 0
              \/ /\ meter.optState = "OptIn"
                 /\ frame[c].payload.interval = "QuarterHourly"
                 /\ frame[c].payload.toDate = frame[c].endTime
        /\ meter.optState \notin {"OptMiddle", "OptIn"} =>
              /\ frame[c].pc # "waitReadings"
              /\ frame[c].payload.path # "getMeterReading"
              /\ meter.data = NoneList
              /\ (frame[c].pc = "done"
                    /\ frame[c].op \in {"fetch_consumption_data", "get_historic_data"})
                 => (frame[c].result = [kind |-> "return", val |-> None]
                       /\ frame[c].resp = NoneList)

\* A Daily request whose end differs from the end time the caller computed.
C12_Witness ==
    /\ frame[MainCaller].pc = "waitReadings"
    /\ meter.optState = "OptMiddle"
    /\ frame[MainCaller].op = "fetch_consumption_data"
    /\ frame[MainCaller].payload.toDate # frame[MainCaller].endTime

\* The step of caller c in which its operation ends.
Ends(c, operation) ==
    /\ frame[c].pc # "done"
    /\ frame'[c].pc = "done"
    /\ frame'[c].op = operation

\* The soft failures of _fetch_data: unsupported mode, no metadata answer,
\* no answer to the reading query, no readings in the answer.
SoftFailure(f) ==
    \/ meter.optState \notin {"OptMiddle", "OptIn"}
    \/ f.got = "None"
    \/ f.got = "body" /\ f.payload.path = "getMeterReading" /\ f.served = << >>

\* C13: fetch_consumption_data replaces the cached data by the sequence
\* _fetch_data returned, also by an empty one, leaves the cached data as it
\* was when _fetch_data failed softly, and does not raise for a soft failure.
\* No other step of the operation touches the cached data.
C13_DataReplacedOrKept ==
    [][ \A c \in MCallers :
          /\ Ends(c, "fetch_consumption_data") =>
                /\ ~ frame'[c].resp.isNone =>
                      /\ meter'.data = frame'[c].resp
                      /\ frame'[c].result.kind = "return"
                /\ SoftFailure(frame'[c]) =>
                      /\ frame'[c].resp.isNone
                      /\ meter'.data = meter.data
                      /\ frame'[c].result.kind = "return"
                /\ frame'[c].result.kind = "raise" => meter'.data = meter.data
          /\ (frame'[c].op = "fetch_consumption_data"
                 /\ ~ Ends(c, "fetch_consumption_data"))
             => meter'.data = meter.data ]_vars

\* A batch with records was replaced by an empty sequence.
C13_Witness ==
    /\ frame[MainCaller].pc = "done"
    /\ frame[MainCaller].op = "fetch_consumption_data"
    /\ frame[MainCaller].served # << >>
    /\ meter.data = SomeList(<< >>)
    /\ meter.lastReadingDate # None

Trackers(m) == << m.lastConsumptionDate, m.lastConsumption,
                  m.lastReadingDate, m.lastReading >>

HandlesList(t) ==
    /\ op[t] = "update_info"
    /\ pc[t] = "wait"
    /\ phase[t] = "main"
    /\ pc'[t] = "done"
    /\ inbox'[t].kind = "OK"
    /\ inbox'[t].body.shape = "list"

\* The last record of a response that carries installation id i.
RecordsOf(list, i) == {k \in DOMAIN list : list[k].installationID = i}
LastOf(list, i) == list[CHOOSE k \in RecordsOf(list, i) :
                           \A j \in RecordsOf(list, i) : j <= k]

\* C15: update_info sets the entry of every installation id in the response
\* to a new installation built from its record, leaves every other entry as
\* it was, so no installation id is ever lost; no other step, and no refresh
\* whose query returned None, changes the installations.
C15_UpsertWithoutPruning ==
    [][ /\ \A i \in InstallationIDs :
              installations[i].present => installations'[i].present
        /\ \A t \in Tasks :
              HandlesList(t) =>
                  \A i \in InstallationIDs :
                      IF RecordsOf(inbox'[t].body.insts, i) # {}
                      THEN installations'[i]
                              = NewInstallation(LastOf(inbox'[t].body.insts, i))
                      ELSE installations'[i] = installations[i]
        /\ (\A t \in Tasks : ~ HandlesList(t)) => installations' = installations
      ]_vars

\* A refresh whose response lacks installation 1 has replaced installation 2
\* and kept installation 1 from an earlier refresh.
C15_Witness ==
    /\ pc[MainTask] = "done"
    /\ op[MainTask] = "update_info"
    /\ inbox[MainTask].kind = "OK"
    /\ inbox[MainTask].body.shape = "list"
    /\ RecordsOf(inbox[MainTask].body.insts, 1) = {}
    /\ RecordsOf(inbox[MainTask].body.insts, 2) # {}
    /\ installations[1].present
    /\ installations[2] = NewInstallation(LastOf(inbox[MainTask].body.insts, 2))
    /\ installations[2].customerID # installations[1].customerID

(***************************************************************************)
(* Two callers of query() at once: the tasks interleave at their awaits.   *)
(***************************************************************************)
\* The server of this run answers every POST: a login with a token or with
\* a status other than 200, any other request with a flat object or with a
\* status other than 200.
ConcurrentOutcomes(p) ==
    {o \in Outcomes(p) :
        \/ o.kind = "Non200"
        \/ /\ o.kind = "OK"
           /\ o.body.error = "absent"
           /\ p = LoginPath => (o.body.success = "true" /\ o.body.token \in Tokens)}

RespondConcurrent(t) == RespondWith(t, ConcurrentOutcomes(sent[t].path))

NextConcurrent ==
    \/ \E t \in Tasks : Query(t, "getMeterReading")
    \/ \E t \in Tasks : RespondConcurrent(t)
    \/ \E t \in Tasks : Return(t)
    \/ Tick

SpecConcurrent == Init /\ [][NextConcurrent]_vars

\* The step in which query() of task t starts.
Starts(t) == pc[t] = "idle" /\ pc'[t] # "idle"

\* The step in which authenticate() of task t gets a token from the server
\* and stores it.
LoginStores(t) ==
    /\ pc[t] = "wait"
    /\ phase[t] = "login"
    /\ pc'[t] = "done" \/ phase'[t] = "main"
    /\ inbox'[t].kind = "OK"

\* C16: re-authentication is not serialized.  A query() that finds the token
\* invalid sends its own login request, whatever the other task is doing;
\* each authenticate() that gets a token overwrites the token held, so the
\* token held is the one of the authenticate() that stored last (or none,
\* once a validity check has dropped it).
C16_UnserializedReauth ==
    [][ /\ \A t \in Tasks :
              /\ (Starts(t) /\ ~ ok(jwt, now)) =>
                    (pc'[t] = "wait" /\ sent'[t].path = LoginPath)
              /\ LoginStores(t) =>
                    jwt' = IF ok(inbox'[t].body.token, now)
                           THEN inbox'[t].body.token ELSE NoToken
        /\ jwt' # jwt =>
              \/ jwt' = NoToken
              \/ \E t \in Tasks : LoginStores(t) /\ jwt' = inbox'[t].body.token
      ]_vars

\* Two login requests are in flight at once.
C16_Witness ==
    /\ \A t \in Tasks : pc[t] = "wait" /\ phase[t] = "login"
                        /\ sent[t].path = LoginPath /\ op[t] = "query"

\* Both queries are through; each sent its request with the token of its own
\* login, and the token held is the one of the second login.
LastLoginWinsReached ==
    /\ \A t \in Tasks : pc[t] = "done" /\ phase[t] = "main"
    /\ sent["t1"].auth = Jwt(1)
    /\ sent["t2"].auth = Jwt(2)
    /\ sent["t1"].builtAt = 0
    /\ sent["t2"].builtAt = 0
    /\ jwt = Jwt(2)

(***************************************************************************)
(* Properties of the fan-out                                               *)
(***************************************************************************)
\* The ways the task of one meter's fetch moves on by itself.
OwnMove(before, after) ==
    \/ before = "idle" /\ after = "scheduled"
    \/ before = "scheduled" /\ after = "running"
    \/ before = "running" /\ after \in {"returned", "raised"}

\* C17: a failing child of a fan-out does not cancel its siblings.  The task
\* of a meter's fetch only ever moves on by itself, one fetch ends per step,
\* the data of a meter changes only when its own fetch returns, no fetch
\* changes which installation holds which meter, and every fetch that was
\* launched runs to its own end whatever its siblings did.
C17_SiblingsNotCancelled ==
    /\ [][ /\ \A k \in FanMeters :
                 /\ meterTask'[k] # meterTask[k] => OwnMove(meterTask[k], meterTask'[k])
                 /\ meterData'[k] # meterData[k] =>
                       (meterTask[k] = "running" /\ meterTask'[k] = "returned")
                 /\ \A m \in FanMeters \ {k} :
                       ~ (/\ meterTask[k] = "running" /\ meterTask'[k] # "running"
                          /\ meterTask[m] = "running" /\ meterTask'[m] # "running")
           /\ owner' = owner ]_vars
    /\ \A k \in FanMeters :
          (meterTask[k] \in {"scheduled", "running"}) ~> Settled(meterTask[k])

\* The account's fetch has ended with the failure of meter 1; its sibling
\* meter 2 has stored a batch and its sibling meter 3 is still running.
C17_Witness ==
    /\ acct = "raised"
    /\ \A m \in FanMeters : owner[m] = 1
    /\ meterTask[1] = "raised"
    /\ meterTask[2] = "returned"
    /\ meterData[2] = "batch"
    /\ meterTask[3] = "running"

(***************************************************************************)
(* Properties of the meter's memoization slots                             *)
(***************************************************************************)
\* C18: over any sequence or interleaving of operations on a meter, at most
\* one getMeterReadingMetaData query returns a date, and the first reading
\* date, once set, is never unset and never changes.
C18_ResolvedOnce ==
    /\ [](hist.meta <= 1)
    /\ [][meter.firstReadingDate # None
             => meter'.firstReadingDate = meter.firstReadingDate]_vars

\* C19: the first reading value, once cached, never changes, and a
\* get_first_reading that finds it cached returns it without any request.
C19_FirstReadingCached ==
    [][ \A c \in MCallers :
          /\ meter.firstReading # None => meter'.firstReading = meter.firstReading
          /\ (/\ frame[c].pc = "idle"
              /\ frame'[c].op = "get_first_reading"
              /\ meter.firstReading # None)
             => /\ frame'[c].pc = "done"
                /\ frame'[c].result = [kind |-> "return", val |-> meter.firstReading]
                /\ frame'[c].payload = NoPayload ]_vars

\* The start of the window get_first_reading asks for after n empty results.
ScanStart(first, n) == first + n * ScanDays * UnitsPerDay

\* C20: get_first_reading asks for the 7 days from the first reading date
\* and, after each empty sequence, for the 7 days after the window before;
\* it ends at the first sequence with records, whose first record alone
\* decides between its MR value and nothing, or at a soft failure of
\* _fetch_data with nothing.
C20_ForwardScan ==
    [][ \A c \in MCallers :
          /\ (frame'[c].op = "get_first_reading" /\ frame'[c].pc = "waitReadings") =>
                /\ frame'[c].startTime
                      = ScanStart(meter'.firstReadingDate, frame'[c].scans)
                /\ frame'[c].endTime = frame'[c].startTime + ScanDays * UnitsPerDay
                /\ frame'[c].payload.fromDate = frame'[c].startTime
                /\ frame'[c].payload.toDate =
                      IF meter.optState = "OptMiddle"
                      THEN ZeroHourMinute(frame'[c].endTime) ELSE frame'[c].endTime
          /\ (/\ frame[c].op = "get_first_reading"
              /\ frame[c].pc = "waitReadings"
              /\ frame'[c] # frame[c]
              /\ frame'[c].got # "raise") =>
                IF frame'[c].got = "None" \/ frame'[c].resp.isNone
                THEN /\ frame'[c].pc = "done"
                     /\ frame'[c].result = [kind |-> "return", val |-> None]
                ELSE IF frame'[c].resp.list = << >>
                THEN /\ frame'[c].pc = "waitReadings"
                     /\ frame'[c].scans = frame[c].scans + 1
                     /\ frame'[c].payload.fromDate
                           = frame[c].payload.fromDate + ScanDays * UnitsPerDay
                     /\ frame'[c].payload.toDate
                           = frame[c].payload.toDate + ScanDays * UnitsPerDay
                ELSE /\ frame'[c].pc = "done"
                     /\ frame'[c].result.kind = "return"
                     /\ frame'[c].result.val =
                           IF "MR" \in DOMAIN frame'[c].resp.list[1]
                           THEN frame'[c].resp.list[1]["MR"] ELSE None ]_vars

\* The second window gave two records; the first one decided.
C20_Witness ==
    /\ frame[MainCaller].pc = "done"
    /\ frame[MainCaller].op = "get_first_reading"
    /\ frame[MainCaller].scans = 2
    /\ Len(frame[MainCaller].resp.list) = 2
    /\ frame[MainCaller].result.val = 7
    /\ "MR" \notin DOMAIN frame[MainCaller].resp.list[2]
    /\ meter.firstReading = 7

====
